---------------------------- MODULE Spec2Model ----------------------------
(***************************************************************************)
(* Model of the WhatsApp Business API wrapper.                             *)
(*                                                                         *)
(* Spec: the inbound-webhook helper WebhookHandler (src/unnamed/part_003): *)
(* the subscription handshake verifyWebhook, the signature check           *)
(* validateSignature and the two extractors getFirstMessage and            *)
(* getFirstStatus.                                                         *)
(* SpecServer: the route handlers of the implementation guide that use     *)
(* the helper.                                                             *)
(* SpecClient: the API client WhatsAppBusiness (src/src/index.ts) and the  *)
(* HTTP requests its methods issue.                                        *)
(*                                                                         *)
(* JavaScript values are tagged records; a JavaScript string is a sequence *)
(* of one-character strings, so that split, length, UTF-8 encoding and     *)
(* character comparison are computed and not assumed.  Every operation     *)
(* yields an outcome: a returned value or a thrown exception.              *)
(***************************************************************************)
EXTENDS Integers, Sequences, FiniteSets

VARIABLES op, sigArgs, hookArgs, envelope, outcome,
          calls, response, config, requests, pc

vars == <<op, sigArgs, hookArgs, envelope, outcome,
          calls, response, config, requests, pc>>

(* What the calls on WebhookHandler alone leave untouched: the trace and   *)
(* the response of a route handler, and the state of the API client.       *)
serverVars == <<calls, response>>

clientVars == <<config, requests, pc>>

---------------------------------------------------------------------------
(* Bounds of the model.                                                    *)

MaxPayloadLen == 2
MaxSecretLen == 2
MaxTokenLen == 2
MaxListLen == 2
MaxToolCalls == 2
MaxCalls == 2

---------------------------------------------------------------------------
(* JavaScript values and outcomes.                                         *)

Undefined == [t |-> "undefined"]
Null == [t |-> "null"]
Str(s) == [t |-> "string", v |-> s]
Bool(b) == [t |-> "boolean", v |-> b]
Arr(a) == [t |-> "array", v |-> a]
Obj(o) == [t |-> "object", v |-> o]

Return(v) == [kind |-> "return", value |-> v]
Throw(e) == [kind |-> "throw", value |-> Str(e)]

NoArgs == [t |-> "none"]

(* ToBoolean: undefined, null, "" and false are falsy; arrays and objects  *)
(* (empty ones included) are truthy.                                       *)
Truthy(v) ==
  CASE v.t = "undefined" -> FALSE
    [] v.t = "null" -> FALSE
    [] v.t = "string" -> Len(v.v) > 0
    [] v.t = "boolean" -> v.v
    [] OTHER -> TRUE

(* Strict equality v === w on the values of the model: primitives compare  *)
(* by value, arrays and objects by identity (two distinct references here).*)
StrictEquals(v, w) ==
  /\ v.t = w.t
  /\ v.t \in {"undefined", "null", "string", "boolean"}
  /\ v = w

(* The bracket read o[k] with a string key on a query mapping.             *)
GetProp(o, k) ==
  IF o.t = "object" /\ k \in DOMAIN o.v THEN o.v[k] ELSE Undefined

---------------------------------------------------------------------------
(* Strings.                                                                *)

RECURSIVE StringsUpTo(_, _)
StringsUpTo(chars, n) ==
  IF n = 0 THEN { <<>> }
  ELSE LET shorter == StringsUpTo(chars, n - 1)
       IN  shorter \cup { Append(s, c) : s \in shorter, c \in chars }

(* String.prototype.split(sep) for a one-character separator: the pieces   *)
(* between the separators, empty pieces kept; one piece more than there    *)
(* are separators.                                                         *)
Split(s, sep) ==
  LET seps == { i \in 1..Len(s) : s[i] = sep }
      (* position of the k-th separator; 0 before the first piece and      *)
      (* Len(s) + 1 after the last                                         *)
      at(k) == IF k = 0 THEN 0
               ELSE IF k > Cardinality(seps) THEN Len(s) + 1
               ELSE CHOOSE i \in seps : Cardinality({ j \in seps : j < i }) = k - 1
  IN  [k \in 1..(Cardinality(seps) + 1) |-> SubSeq(s, at(k - 1) + 1, at(k) - 1)]

(* UTF-8 encoding of one character, as Buffer.from(string) encodes it.     *)
Utf8(c) ==
  CASE c = "0" -> <<48>> [] c = "1" -> <<49>> [] c = "2" -> <<50>>
    [] c = "3" -> <<51>> [] c = "4" -> <<52>> [] c = "5" -> <<53>>
    [] c = "6" -> <<54>> [] c = "7" -> <<55>> [] c = "8" -> <<56>>
    [] c = "9" -> <<57>> [] c = "=" -> <<61>>
    [] c = "A" -> <<65>> [] c = "B" -> <<66>> [] c = "C" -> <<67>>
    [] c = "D" -> <<68>> [] c = "E" -> <<69>> [] c = "F" -> <<70>>
    [] c = "a" -> <<97>> [] c = "b" -> <<98>> [] c = "c" -> <<99>>
    [] c = "d" -> <<100>> [] c = "e" -> <<101>> [] c = "f" -> <<102>>
    [] c = "g" -> <<103>> [] c = "h" -> <<104>> [] c = "s" -> <<115>>
    [] c = "U+00E9" -> <<195, 169>>

(* Buffer.from(s): the UTF-8 bytes of the characters of s, in order. *)
RECURSIVE BufferFrom(_)
BufferFrom(s) ==
  IF Len(s) = 0 THEN <<>>
  ELSE IF Len(s) = 1 THEN Utf8(s[1])
  ELSE LET half == Len(s) \div 2
       IN  BufferFrom(SubSeq(s, 1, half)) \o BufferFrom(SubSeq(s, half + 1, Len(s)))

HexDigits ==
  <<"0", "1", "2", "3", "4", "5", "6", "7",
    "8", "9", "a", "b", "c", "d", "e", "f">>

---------------------------------------------------------------------------
(* The keyed hash.  crypto.createHmac('sha256', key).update(p).digest('hex')*)
(* gives 64 lowercase hexadecimal characters.  The model's hash is         *)
(* collision-free on the inputs that are checked: the digest's first four  *)
(* characters spell an injective code of (key, payload) and the other      *)
(* sixty are those four shifted, so every digest holds digits and letters. *)

HexDigestLen == 64

InputChars == <<"a", "b">>

Rank(c) == CHOOSE i \in 1..Len(InputChars) : InputChars[i] = c

RECURSIVE SeqCode(_)
SeqCode(s) ==
  IF s = <<>> THEN 0
  ELSE SeqCode(SubSeq(s, 1, Len(s) - 1)) * Len(InputChars) + Rank(s[Len(s)])

RECURSIVE Pow16(_)
Pow16(n) == IF n = 0 THEN 1 ELSE 16 * Pow16(n - 1)

HmacSha256Hex(key, payload) ==
  LET code == SeqCode(key) * 256 + SeqCode(payload)
      nibble(i) == (code \div Pow16((i - 1) % 4)) % 16
  IN  [i \in 1..HexDigestLen |->
         HexDigits[((nibble(i) + ((i - 1) \div 4)) % 16) + 1]]

(* crypto.timingSafeEqual(a, b): throws on buffers of different byte       *)
(* length, otherwise tells whether the two hold the same bytes.            *)
TimingSafeEqual(a, b) ==
  IF Len(a) # Len(b) THEN Throw("RangeError") ELSE Return(Bool(a = b))

---------------------------------------------------------------------------
(* Variants of validateSignature, each with one slip, against which the    *)
(* properties are tried.                                                   *)

(* takes the algorithm name, parts[0], for the digest *)
validateSignature_firstPart(payload, signature, appSecret) ==
  IF ~Truthy(signature) THEN Return(Bool(FALSE))
  ELSE
    LET parts == Split(signature.v, "=")
    IN  IF Len(parts) # 2 THEN Return(Bool(FALSE))
        ELSE
          LET sigHash == parts[1]
              digest == HmacSha256Hex(appSecret, payload)
              digestRead == BufferFrom(digest)
              sigRead == BufferFrom(sigHash)
          IN  IF Len(digestRead) # Len(sigRead) THEN Return(Bool(FALSE))
              ELSE TimingSafeEqual(digestRead, sigRead)

(* compares the computed digest with itself *)
validateSignature_selfCompare(payload, signature, appSecret) ==
  IF ~Truthy(signature) THEN Return(Bool(FALSE))
  ELSE
    LET parts == Split(signature.v, "=")
    IN  IF Len(parts) # 2 THEN Return(Bool(FALSE))
        ELSE
          LET sigHash == parts[2]
              digest == HmacSha256Hex(appSecret, payload)
              digestRead == BufferFrom(digest)
              sigRead == BufferFrom(sigHash)
          IN  IF Len(digestRead) # Len(sigRead) THEN Return(Bool(FALSE))
              ELSE TimingSafeEqual(digestRead, digestRead)

(* keys the hash with the empty string instead of appSecret *)
validateSignature_noKey(payload, signature, appSecret) ==
  IF ~Truthy(signature) THEN Return(Bool(FALSE))
  ELSE
    LET parts == Split(signature.v, "=")
    IN  IF Len(parts) # 2 THEN Return(Bool(FALSE))
        ELSE
          LET sigHash == parts[2]
              digest == HmacSha256Hex(<<>>, payload)
              digestRead == BufferFrom(digest)
              sigRead == BufferFrom(sigHash)
          IN  IF Len(digestRead) # Len(sigRead) THEN Return(Bool(FALSE))
              ELSE TimingSafeEqual(digestRead, sigRead)

(* checks the lengths of the strings, not of the buffers *)
validateSignature_stringLength(payload, signature, appSecret) ==
  IF ~Truthy(signature) THEN Return(Bool(FALSE))
  ELSE
    LET parts == Split(signature.v, "=")
    IN  IF Len(parts) # 2 THEN Return(Bool(FALSE))
        ELSE
          LET sigHash == parts[2]
              digest == HmacSha256Hex(appSecret, payload)
              digestRead == BufferFrom(digest)
              sigRead == BufferFrom(sigHash)
          IN  IF Len(digest) # Len(sigHash) THEN Return(Bool(FALSE))
              ELSE TimingSafeEqual(digestRead, sigRead)

(* accepts only the algorithm name sha256 in parts[0] *)
validateSignature_requireAlgorithm(payload, signature, appSecret) ==
  IF ~Truthy(signature) THEN Return(Bool(FALSE))
  ELSE
    LET parts == Split(signature.v, "=")
    IN  IF Len(parts) # 2 THEN Return(Bool(FALSE))
        ELSE IF parts[1] # <<"s", "h", "a", "2", "5", "6">> THEN Return(Bool(FALSE))
        ELSE
          LET sigHash == parts[2]
              digest == HmacSha256Hex(appSecret, payload)
              digestRead == BufferFrom(digest)
              sigRead == BufferFrom(sigHash)
          IN  IF Len(digestRead) # Len(sigRead) THEN Return(Bool(FALSE))
              ELSE TimingSafeEqual(digestRead, sigRead)

(* hands the two buffers to the comparison without the length check *)
validateSignature_noLengthCheck(payload, signature, appSecret) ==
  IF ~Truthy(signature) THEN Return(Bool(FALSE))
  ELSE
    LET parts == Split(signature.v, "=")
    IN  IF Len(parts) # 2 THEN Return(Bool(FALSE))
        ELSE
          LET sigHash == parts[2]
              digest == HmacSha256Hex(appSecret, payload)
              digestRead == BufferFrom(digest)
              sigRead == BufferFrom(sigHash)
          IN  TimingSafeEqual(digestRead, sigRead)

---------------------------------------------------------------------------
(* WebhookHandler.validateSignature(payload, signature, appSecret).        *)

validateSignature(payload, signature, appSecret) ==
  IF ~Truthy(signature) THEN Return(Bool(FALSE))
  ELSE
    LET parts == Split(signature.v, "=")
    IN  IF Len(parts) # 2 THEN Return(Bool(FALSE))
        ELSE
          LET sigHash == parts[2]
              digest == HmacSha256Hex(appSecret, payload)
              digestRead == BufferFrom(digest)
              sigRead == BufferFrom(sigHash)
          IN  IF Len(digestRead) # Len(sigRead) THEN Return(Bool(FALSE))
              ELSE TimingSafeEqual(digestRead, sigRead)

(* The literal 'subscribe'. *)
SUBSCRIBE == <<"s", "u", "b", "s", "c", "r", "i", "b", "e">>

---------------------------------------------------------------------------
(* Variants of verifyWebhook, each with one slip.                          *)

(* accepts when the mode or the token matches *)
verifyWebhook_either(query, verifyToken) ==
  LET mode == GetProp(query, "hub.mode")
      token == GetProp(query, "hub.verify_token")
      challenge == GetProp(query, "hub.challenge")
  IN  IF Truthy(mode) /\ Truthy(token)
      THEN IF StrictEquals(mode, Str(SUBSCRIBE)) \/ StrictEquals(token, Str(verifyToken))
           THEN Return(challenge)
           ELSE Return(Null)
      ELSE Return(Null)

(* compares without first requiring a non-empty mode and token *)
verifyWebhook_noGuard(query, verifyToken) ==
  LET mode == GetProp(query, "hub.mode")
      token == GetProp(query, "hub.verify_token")
      challenge == GetProp(query, "hub.challenge")
  IN  IF StrictEquals(mode, Str(SUBSCRIBE)) /\ StrictEquals(token, Str(verifyToken))
      THEN Return(challenge)
      ELSE Return(Null)

(* echoes the token instead of the challenge *)
verifyWebhook_echoToken(query, verifyToken) ==
  LET mode == GetProp(query, "hub.mode")
      token == GetProp(query, "hub.verify_token")
      challenge == GetProp(query, "hub.challenge")
  IN  IF Truthy(mode) /\ Truthy(token)
      THEN IF StrictEquals(mode, Str(SUBSCRIBE)) /\ StrictEquals(token, Str(verifyToken))
           THEN Return(token)
           ELSE Return(Null)
      ELSE Return(Null)

---------------------------------------------------------------------------
(* WebhookHandler.verifyWebhook(query, verifyToken).                       *)

verifyWebhook(query, verifyToken) ==
  LET mode == GetProp(query, "hub.mode")
      token == GetProp(query, "hub.verify_token")
      challenge == GetProp(query, "hub.challenge")
  IN  IF Truthy(mode) /\ Truthy(token)
      THEN IF StrictEquals(mode, Str(SUBSCRIBE)) /\ StrictEquals(token, Str(verifyToken))
           THEN Return(challenge)
           ELSE Return(Null)
      ELSE Return(Null)

---------------------------------------------------------------------------
(* Property reads on a parsed envelope.  Reading a property of undefined   *)
(* or null throws a TypeError; TypeErr stands for that abrupt completion   *)
(* and every later read of the same expression passes it on.               *)

TypeErr == [t |-> "TypeError"]

IsErr(v) == v.t = "TypeError"

(* v.name *)
Prop(v, name) ==
  CASE v.t = "TypeError" -> TypeErr
    [] v.t \in {"undefined", "null"} -> TypeErr
    [] v.t = "object" -> IF name \in DOMAIN v.v THEN v.v[name] ELSE Undefined
    [] OTHER -> Undefined

(* v[0] *)
First(v) ==
  CASE v.t = "TypeError" -> TypeErr
    [] v.t \in {"undefined", "null"} -> TypeErr
    [] v.t = "array" -> IF Len(v.v) > 0 THEN v.v[1] ELSE Undefined
    [] v.t = "string" -> IF Len(v.v) > 0 THEN Str(<<v.v[1]>>) ELSE Undefined
    [] OTHER -> Undefined

(* FirstOf returning the last element of the list instead of the first. *)
FirstOf_lastElement(payload, field) ==
  LET entry == Prop(payload, "entry")
      changes == Prop(First(entry), "changes")
      list == Prop(Prop(First(changes), "value"), field)
      first == IF list.t = "array" /\ Len(list.v) > 0
               THEN list.v[Len(list.v)] ELSE First(list)
  IN  IF IsErr(entry) THEN Throw("TypeError")
      ELSE IF ~Truthy(entry) THEN Return(Null)
      ELSE IF IsErr(changes) THEN Throw("TypeError")
      ELSE IF ~Truthy(changes) THEN Return(Null)
      ELSE IF IsErr(list) THEN Throw("TypeError")
      ELSE IF ~Truthy(list) THEN Return(Null)
      ELSE IF ~Truthy(first) THEN Return(Null)
      ELSE Return(first)

(* FirstOf descending into the last entry and its last change instead of   *)
(* the first ones.                                                         *)
FirstOf_lastSibling(payload, field) ==
  LET Last(v) == IF v.t = "array" /\ Len(v.v) > 0 THEN v.v[Len(v.v)]
                 ELSE First(v)
      entry == Prop(payload, "entry")
      changes == Prop(Last(entry), "changes")
      list == Prop(Prop(Last(changes), "value"), field)
      first == First(list)
  IN  IF IsErr(entry) THEN Throw("TypeError")
      ELSE IF ~Truthy(entry) THEN Return(Null)
      ELSE IF IsErr(changes) THEN Throw("TypeError")
      ELSE IF ~Truthy(changes) THEN Return(Null)
      ELSE IF IsErr(list) THEN Throw("TypeError")
      ELSE IF ~Truthy(list) THEN Return(Null)
      ELSE IF ~Truthy(first) THEN Return(Null)
      ELSE Return(first)

(* The descent shared by getFirstMessage and getFirstStatus: the && chain  *)
(* payload.entry && payload.entry[0].changes &&                            *)
(* payload.entry[0].changes[0].value.<field> && ...<field>[0], evaluated   *)
(* left to right, stopping at the first falsy operand.                     *)
FirstOf(payload, field) ==
  LET entry == Prop(payload, "entry")
      changes == Prop(First(entry), "changes")
      list == Prop(Prop(First(changes), "value"), field)
      first == First(list)
  IN  IF IsErr(entry) THEN Throw("TypeError")
      ELSE IF ~Truthy(entry) THEN Return(Null)
      ELSE IF IsErr(changes) THEN Throw("TypeError")
      ELSE IF ~Truthy(changes) THEN Return(Null)
      ELSE IF IsErr(list) THEN Throw("TypeError")
      ELSE IF ~Truthy(list) THEN Return(Null)
      ELSE IF ~Truthy(first) THEN Return(Null)
      ELSE Return(first)

(* The envelope after an extractor that takes the first element off the    *)
(* list it returns from (list.shift() instead of list[0]).                 *)
AfterRead_shift(payload, field) ==
  LET list ==
        Prop(Prop(First(Prop(First(Prop(payload, "entry")), "changes")), "value"),
             field)
  IN  IF IsErr(list) \/ list.t # "array" THEN payload
      ELSE IF Len(list.v) = 0 THEN payload
      ELSE Obj([payload.v EXCEPT !["entry"] =
             Arr([@.v EXCEPT ![1] =
               Obj([@.v EXCEPT !["changes"] =
                 Arr([@.v EXCEPT ![1] =
                   Obj([@.v EXCEPT !["value"] =
                     Obj([@.v EXCEPT ![field] = Arr(Tail(@.v))])])])])])])

(* The envelope after an extractor has run on it: the && chain and the     *)
(* return only read the payload, nothing is assigned or removed.           *)
AfterRead(payload, field) == payload

(* WebhookHandler.getFirstMessage(payload). *)
getFirstMessage(payload) == FirstOf(payload, "messages")

(* getFirstStatus reading the messages of the first change. *)
getFirstStatus_messages(payload) == FirstOf(payload, "messages")

(* WebhookHandler.getFirstStatus(payload). *)
getFirstStatus(payload) == FirstOf(payload, "statuses")

---------------------------------------------------------------------------
(* The route handlers of the implementation guide.  A handler yields the   *)
(* trace of the calls it made, in order, and the response it sent.         *)

TEXT == <<"t", "e", "x", "t">>

(* One call of a trace: the function, its argument of interest, its result.*)
Call(fn, arg, result) == [fn |-> fn, arg |-> arg, result |-> result]

(* How a call on the API client or on the language model ends: it is not   *)
(* awaited, or its promise is fulfilled or rejected.                       *)
NotAwaited == [kind |-> "pending"]
Fulfilled == [kind |-> "fulfilled"]
Rejected == [kind |-> "rejected"]

(* res.sendStatus(code): the status with its standard text as the body. *)
StatusText == [t |-> "statusText"]

SendStatus(code) == [kind |-> "sent", status |-> code, body |-> StatusText]

(* res.send(body): status 200; a string is sent as it is, an array or an   *)
(* object as its JSON text.                                                *)
Json(v) == [t |-> "json", v |-> v]

Send(body) ==
  [kind |-> "sent", status |-> 200,
   body |-> IF body.t = "string" THEN body ELSE Json(body)]

(* The handler threw, or the promise it returned was rejected, before it   *)
(* sent a response.                                                        *)
Uncaught == [kind |-> "uncaught", status |-> 0, body |-> NoArgs]

(* app.get('/webhook'). *)
getWebhook(query, verifyToken) ==
  LET challenge == verifyWebhook(query, verifyToken)
  IN  [calls |-> <<Call("verifyWebhook", NoArgs, challenge)>>,
       response |-> IF Truthy(challenge.value) THEN Send(challenge.value)
                    ELSE SendStatus(400)]

(* WebhookHandler.validateSignature(req.rawBody, ...) as the handlers call *)
(* it: req.rawBody is a string when a body-parser hook stored it and       *)
(* undefined otherwise, and hmac.update(undefined) throws a TypeError.     *)
validateRequest(rawBody, signature, appSecret) ==
  IF rawBody.t = "string" THEN validateSignature(rawBody.v, signature, appSecret)
  ELSE IF ~Truthy(signature) THEN Return(Bool(FALSE))
  ELSE IF Len(Split(signature.v, "=")) # 2 THEN Return(Bool(FALSE))
  ELSE Throw("TypeError")

(* app.post('/webhook') answering 200 whatever validateSignature says. *)
postWebhook_noReject(req, appSecret) ==
  LET valid == validateRequest(req.rawBody, req.signature, appSecret)
      message == getFirstMessage(req.body)
      c1 == <<Call("validateSignature", NoArgs, valid)>>
      c2 == c1 \o <<Call("getFirstMessage", NoArgs, message)>>
  IN  IF valid.kind = "throw" THEN [calls |-> c1, response |-> Uncaught]
      ELSE IF message.kind = "throw" THEN [calls |-> c2, response |-> Uncaught]
      ELSE IF Truthy(message.value)
              /\ StrictEquals(Prop(message.value, "type"), Str(TEXT))
      THEN IF IsErr(Prop(Prop(message.value, "text"), "body"))
           THEN [calls |-> c2, response |-> Uncaught]
           ELSE [calls |-> c2 \o <<Call("sendText", Prop(message.value, "from"),
                                        NotAwaited)>>,
                 response |-> SendStatus(200)]
      ELSE [calls |-> c2, response |-> SendStatus(200)]

(* app.post('/webhook'), the message listener. *)
postWebhook(req, appSecret) ==
  LET valid == validateRequest(req.rawBody, req.signature, appSecret)
      message == getFirstMessage(req.body)
      c1 == <<Call("validateSignature", NoArgs, valid)>>
      c2 == c1 \o <<Call("getFirstMessage", NoArgs, message)>>
  IN  IF valid.kind = "throw" THEN [calls |-> c1, response |-> Uncaught]
      ELSE IF ~Truthy(valid.value) THEN [calls |-> c1, response |-> SendStatus(401)]
      ELSE IF message.kind = "throw" THEN [calls |-> c2, response |-> Uncaught]
      ELSE IF Truthy(message.value)
              /\ StrictEquals(Prop(message.value, "type"), Str(TEXT))
      THEN IF IsErr(Prop(Prop(message.value, "text"), "body"))
           THEN [calls |-> c2, response |-> Uncaught]
           ELSE [calls |-> c2 \o <<Call("sendText", Prop(message.value, "from"),
                                        NotAwaited)>>,
                 response |-> SendStatus(200)]
      ELSE [calls |-> c2, response |-> SendStatus(200)]

(* The tools the language model can ask for; the handler acts on the first *)
(* two and ignores any other.                                              *)
ToolNames == <<"send_image", "ask_multiple_choice", "other">>

(* The calls on the API client that the tool calls of a response lead to. *)
ToolSends(toolCalls) ==
  LET known == SelectSeq(toolCalls,
                 LAMBDA t : t \in {"send_image", "ask_multiple_choice"})
  IN  [i \in 1..Len(known) |->
         IF known[i] = "send_image" THEN "sendImage" ELSE "sendInteractive"]

(* app.post('/webhook') of the AI integration.  env is what the world does *)
(* during the request: how markMessageAsRead and generateAIResponse end,   *)
(* the tool calls of the AI response, which send of the try block is       *)
(* rejected (0: none) and how the apology sent by the catch block ends.    *)
postWebhookAI(req, appSecret, env) ==
  LET valid == validateRequest(req.rawBody, req.signature, appSecret)
      message == getFirstMessage(req.body)
      c1 == <<Call("validateSignature", NoArgs, valid)>>
      c2 == c1 \o <<Call("getFirstMessage", NoArgs, message)>>
      userMessage == Prop(Prop(message.value, "text"), "body")
      userPhone == Prop(message.value, "from")
      contacts ==
        Prop(Prop(First(Prop(First(Prop(req.body, "entry")), "changes")),
                  "value"), "contacts")
      userName == Prop(Prop(First(contacts), "profile"), "name")
      c3 == c2 \o <<Call("markMessageAsRead", Prop(message.value, "id"),
                         env.markRead)>>
      c4 == c3 \o <<Call("generateAIResponse", userMessage, env.ai)>>
      planned == <<"sendText">> \o ToolSends(env.toolCalls)
      rejects == env.failAt \in 1..Len(planned)
      n == IF rejects THEN env.failAt ELSE Len(planned)
      sends == [i \in 1..n |->
                  Call(planned[i], userPhone,
                       IF i = env.failAt THEN Rejected ELSE Fulfilled)]
      c5 == IF env.ai = Rejected THEN c4 ELSE c4 \o sends
      c6 == c5 \o <<Call("sendText", userPhone, env.apology)>>
  IN  IF valid.kind = "throw" THEN [calls |-> c1, response |-> Uncaught]
      ELSE IF ~Truthy(valid.value) THEN [calls |-> c1, response |-> SendStatus(401)]
      ELSE IF message.kind = "throw" THEN [calls |-> c2, response |-> Uncaught]
      ELSE IF ~(Truthy(message.value)
                /\ StrictEquals(Prop(message.value, "type"), Str(TEXT)))
      THEN [calls |-> c2, response |-> SendStatus(200)]
      ELSE IF IsErr(userMessage) \/ IsErr(userName)
      THEN [calls |-> c2, response |-> Uncaught]
      ELSE IF env.markRead = Rejected THEN [calls |-> c3, response |-> Uncaught]
      ELSE IF env.ai = Fulfilled /\ ~rejects
      THEN [calls |-> c5, response |-> SendStatus(200)]
      ELSE IF env.apology = Rejected THEN [calls |-> c6, response |-> Uncaught]
      ELSE [calls |-> c6, response |-> SendStatus(200)]

---------------------------------------------------------------------------
(* Inputs of validateSignature: payloads and secrets over InputChars, and, *)
(* for a call on (payload, secret), the headers a sender or a forger can   *)
(* present: headers issued for any payload under the secret or for the     *)
(* payload under any secret, and malformed or tampered variants.           *)

CharsOf(seq) == { seq[i] : i \in 1..Len(seq) }

Payloads == StringsUpTo(CharsOf(InputChars), MaxPayloadLen)

Secrets == StringsUpTo(CharsOf(InputChars), MaxSecretLen)

SHA256 == <<"s", "h", "a", "2", "5", "6">>

SHA1 == <<"s", "h", "a", "1">>

(* The header the provider sends: "sha256=" followed by the hex digest. *)
SignatureHeader(digest) == SHA256 \o <<"=">> \o digest

ToUpperCase(c) ==
  CASE c = "a" -> "A" [] c = "b" -> "B" [] c = "c" -> "C"
    [] c = "d" -> "D" [] c = "e" -> "E" [] c = "f" -> "F"
    [] OTHER -> c

UpperCase(s) == [i \in 1..Len(s) |-> ToUpperCase(s[i])]

OtherHexDigit(c) == IF c = "0" THEN "1" ELSE "0"

TamperPositions == {1, HexDigestLen \div 2, HexDigestLen}

TamperedDigests(d) ==
  { SubSeq(d, 1, Len(d) - 1), d \o <<"0">>, <<>>, UpperCase(d),
    SubSeq(d, 1, Len(d) - 2) \o <<"U+00E9">> }
  \cup UNION { { [d EXCEPT ![p] = c] : c \in {"g", "U+00E9", OtherHexDigit(d[p])} } :
                p \in TamperPositions }

MalformedHeaders(d) ==
  { d, SHA256 \o d, SignatureHeader(d) \o <<"=">>, SHA256 \o <<"=", "=">> \o d,
    SignatureHeader(d) \o <<"=">> \o d, <<"=">>, <<"=">> \o d, SHA1 \o <<"=">> \o d }

Headers(payload, secret) ==
  LET d == HmacSha256Hex(secret, payload)
  IN  {Undefined, Str(<<>>)}
      \cup { Str(SignatureHeader(HmacSha256Hex(secret, p))) : p \in Payloads }
      \cup { Str(SignatureHeader(HmacSha256Hex(s, payload))) : s \in Secrets }
      \cup { Str(SignatureHeader(t)) : t \in TamperedDigests(d) }
      \cup { Str(h) : h \in MalformedHeaders(d) }

---------------------------------------------------------------------------
(* Inputs of verifyWebhook: a query mapping holds each of hub.mode,        *)
(* hub.verify_token and hub.challenge or lacks it; a repeated query        *)
(* parameter arrives as an array.                                          *)

UNSUBSCRIBE == <<"u", "n">> \o SUBSCRIBE

Tokens == StringsUpTo({"T", "W"}, MaxTokenLen)

CHALLENGE == <<"C", "1", "2", "3">>

Absent == Undefined

ModeValues ==
  {Absent, Str(<<>>), Str(SUBSCRIBE), Str(UNSUBSCRIBE), Arr(<<Str(SUBSCRIBE)>>)}

TokenValues == {Absent, Arr(<<Str(<<"T">>)>>)} \cup { Str(t) : t \in Tokens }

ChallengeValues == {Absent, Str(<<>>), Str(CHALLENGE), Arr(<<Str(CHALLENGE)>>)}

Query(mode, token, challenge) ==
  LET val == [k \in {"hub.mode", "hub.verify_token", "hub.challenge"} |->
                CASE k = "hub.mode" -> mode
                  [] k = "hub.verify_token" -> token
                  [] OTHER -> challenge]
      present == { k \in DOMAIN val : val[k] # Absent }
  IN  Obj([k \in present |-> val[k]])

---------------------------------------------------------------------------
(* Inputs of the extractors: envelopes in which every link of              *)
(* entry[0].changes[0].value.messages[0] (statuses[0]) is present, absent, *)
(* empty or of another type, with sibling entries, changes, messages and   *)
(* statuses behind the first.                                              *)

Message(id) == Obj([id |-> Str(<<"m", id>>), type |-> Str(<<"t", "e", "x", "t">>)])

Status(id) == Obj([id |-> Str(<<"s", id>>), status |-> Str(<<"r", "e", "a", "d">>)])

Ids == <<"1", "2", "3", "4">>

(* The record given, with the fields whose value is Absent left out. *)
Record(val) == Obj([k \in { f \in DOMAIN val : val[f] # Absent } |-> val[k]])

(* What the field messages (statuses) of a value can hold. *)
ListValues(field) ==
  {Absent, Null, Str(<<"x">>)}
  \cup { Arr([i \in 1..n |-> IF field = "messages" THEN Message(Ids[i])
                                                  ELSE Status(Ids[i])]) :
           n \in 0..MaxListLen }

ValueValues ==
  {Absent, Null}
  \cup { Record([messages |-> m, statuses |-> s]) :
           m \in ListValues("messages"), s \in ListValues("statuses") }

FullValue ==
  Record([messages |-> Arr(<<Message("9")>>), statuses |-> Arr(<<Status("9")>>)])

FullChange == Record([value |-> FullValue])

ChangeValues == {Null} \cup { Record([value |-> v]) : v \in ValueValues }

ChangesValues ==
  {Absent, Null, Str(<<"x">>), Arr(<<>>)}
  \cup { Arr([i \in 1..n |-> IF i = 1 THEN c ELSE FullChange]) :
           c \in ChangeValues, n \in 1..MaxListLen }

FullEntry == Record([changes |-> Arr(<<FullChange>>)])

EntryValues == {Null} \cup { Record([changes |-> c]) : c \in ChangesValues }

EntriesValues ==
  {Absent, Null, Str(<<"x">>), Arr(<<>>)}
  \cup { Arr([i \in 1..n |-> IF i = 1 THEN e ELSE FullEntry]) :
           e \in EntryValues, n \in 1..MaxListLen }

Envelopes == { Record([entry |-> e]) : e \in EntriesValues }

---------------------------------------------------------------------------
(* Inputs of the route handlers: a request carries the raw body (when a    *)
(* parser hook kept it), the x-hub-signature-256 header and the parsed     *)
(* body; the server is configured with an application secret.              *)

PHONE == <<"1", "5", "5", "5">>

TextMessage ==
  Obj([id |-> Str(<<"m", "1">>), type |-> Str(TEXT), from |-> Str(PHONE),
       text |-> Obj([body |-> Str(<<"h", "i">>)])])

ImageMessage ==
  Obj([id |-> Str(<<"m", "2">>), type |-> Str(<<"i", "m", "a", "g", "e">>),
       from |-> Str(PHONE)])

Contacts == Arr(<<Obj([profile |-> Obj([name |-> Str(<<"A", "n", "n">>)])])>>)

BodyValues ==
  { Record([messages |-> m, contacts |-> c]) :
      m \in {Absent, Arr(<<>>), Arr(<<TextMessage>>), Arr(<<Message("1")>>),
             Arr(<<ImageMessage>>), Arr(<<TextMessage, ImageMessage>>)},
      c \in {Absent, Contacts} }
  \cup {Record([statuses |-> Arr(<<Status("1")>>)])}

Bodies ==
  {Absent, Record([entry |-> Absent]), Record([entry |-> Arr(<<>>)])}
  \cup { Record([entry |-> Arr(<<Record([changes |->
                     Arr(<<Record([value |-> v])>>)])>>)]) : v \in BodyValues }

RawBodies == {Absent} \cup { Str(p) : p \in Payloads }

(* The headers a request with this raw body can carry: none, the one       *)
(* issued under the secret, one issued under another secret, one without   *)
(* a digest.                                                               *)
RequestHeaders(rawBody, secret) ==
  LET p == IF rawBody.t = "string" THEN rawBody.v ELSE <<>>
  IN  {Absent, Str(SignatureHeader(HmacSha256Hex(secret, p))),
       Str(SignatureHeader(HmacSha256Hex(secret \o <<"a">>, p))), Str(SHA256)}

Requests(secret) ==
  UNION { { [rawBody |-> r, signature |-> h, body |-> b] :
              h \in RequestHeaders(r, secret), b \in Bodies } :
          r \in RawBodies }

(* The tool calls of an AI response: up to MaxToolCalls of them. *)
ToolCallLists ==
  { [i \in 1..n |-> ToolNames[((i - 1) % Len(ToolNames)) + 1]] :
      n \in 0..MaxToolCalls }

Envs ==
  [markRead : {Fulfilled, Rejected}, ai : {Fulfilled, Rejected},
   toolCalls : ToolCallLists, failAt : 0..(MaxToolCalls + 1),
   apology : {Fulfilled, Rejected}]

(* The world in which every call is fulfilled and no tool is asked for. *)
QuietEnv ==
  [markRead |-> Fulfilled, ai |-> Fulfilled, toolCalls |-> <<>>, failAt |-> 0,
   apology |-> Fulfilled]

(* The request gets as far as the calls whose end the world decides. *)
ReachesOutbound(req, appSecret) ==
  Len(postWebhookAI(req, appSecret, QuietEnv).calls) > 2

---------------------------------------------------------------------------
(* The state: the last call made on WebhookHandler, its arguments and its  *)
(* outcome.                                                                *)

Init ==
  /\ op = "none"
  /\ sigArgs = NoArgs
  /\ hookArgs = NoArgs
  /\ envelope = NoArgs
  /\ outcome = NoArgs
  /\ calls = <<>>
  /\ response = NoArgs
  /\ config = NoArgs
  /\ requests = <<>>
  /\ pc = "idle"

CallValidateSignature ==
  /\ op = "none"
  /\ \E payload \in Payloads, appSecret \in Secrets :
       \E signature \in Headers(payload, appSecret) :
         /\ op' = "validateSignature"
         /\ sigArgs' = [payload |-> payload, signature |-> signature,
                        appSecret |-> appSecret]
         /\ outcome' = validateSignature(payload, signature, appSecret)
         /\ hookArgs' = NoArgs
         /\ envelope' = NoArgs
         /\ UNCHANGED <<serverVars, clientVars>>

CallVerifyWebhook ==
  /\ op = "none"
  /\ \E mode \in ModeValues, token \in TokenValues,
        challenge \in ChallengeValues, verifyToken \in Tokens :
       /\ op' = "verifyWebhook"
       /\ hookArgs' = [query |-> Query(mode, token, challenge),
                       verifyToken |-> verifyToken]
       /\ outcome' = verifyWebhook(Query(mode, token, challenge), verifyToken)
       /\ sigArgs' = NoArgs
       /\ envelope' = NoArgs
       /\ UNCHANGED <<serverVars, clientVars>>

CallGetFirstMessage ==
  /\ op = "none"
  /\ \E payload \in Envelopes :
       /\ op' = "getFirstMessage"
       /\ envelope' = AfterRead(payload, "messages")
       /\ outcome' = getFirstMessage(payload)
       /\ calls' = <<Call("getFirstMessage", payload, getFirstMessage(payload))>>
       /\ sigArgs' = NoArgs
       /\ hookArgs' = NoArgs
       /\ UNCHANGED <<response, clientVars>>

CallGetFirstStatus ==
  /\ op = "none"
  /\ \E payload \in Envelopes :
       /\ op' = "getFirstStatus"
       /\ envelope' = AfterRead(payload, "statuses")
       /\ outcome' = getFirstStatus(payload)
       /\ calls' = <<Call("getFirstStatus", payload, getFirstStatus(payload))>>
       /\ sigArgs' = NoArgs
       /\ hookArgs' = NoArgs
       /\ UNCHANGED <<response, clientVars>>

(* A further call of an extractor on the envelope of the calls before, the *)
(* same object as they left it.  calls keeps, for each call made on the    *)
(* envelope, the envelope as the call found it and the result.             *)
CallAgain ==
  /\ op \in {"getFirstMessage", "getFirstStatus"}
  /\ Len(calls) < MaxCalls
  /\ \E field \in {"messages", "statuses"} :
       LET name == IF field = "messages" THEN "getFirstMessage"
                   ELSE "getFirstStatus"
           result == IF field = "messages" THEN getFirstMessage(envelope)
                     ELSE getFirstStatus(envelope)
       IN  /\ op' = name
           /\ envelope' = AfterRead(envelope, field)
           /\ outcome' = result
           /\ calls' = Append(calls, Call(name, envelope, result))
  /\ UNCHANGED <<sigArgs, hookArgs, response, clientVars>>

(* The caller takes the outcome; the next call can be made. *)
Done ==
  /\ op # "none"
  /\ pc = "idle"
  /\ op' = "none"
  /\ sigArgs' = NoArgs
  /\ hookArgs' = NoArgs
  /\ envelope' = NoArgs
  /\ outcome' = NoArgs
  /\ calls' = <<>>
  /\ response' = NoArgs
  /\ requests' = <<>>
  /\ UNCHANGED <<config, pc>>

Next ==
  \/ Done
  \/ CallValidateSignature
  \/ CallVerifyWebhook
  \/ CallGetFirstMessage
  \/ CallGetFirstStatus
  \/ CallAgain

Spec == Init /\ [][Next]_vars

---------------------------------------------------------------------------
(* The webhook server of the implementation guide: each request runs one   *)
(* route handler to its end.                                               *)

GetWebhook ==
  /\ op = "none"
  /\ \E mode \in ModeValues, token \in TokenValues,
        challenge \in ChallengeValues, verifyToken \in Tokens :
       LET done == getWebhook(Query(mode, token, challenge), verifyToken)
       IN  /\ op' = "getWebhook"
           /\ hookArgs' = [query |-> Query(mode, token, challenge),
                           verifyToken |-> verifyToken]
           /\ calls' = done.calls
           /\ response' = done.response
           /\ UNCHANGED <<sigArgs, envelope, outcome, clientVars>>

PostWebhook ==
  /\ op = "none"
  /\ \E appSecret \in Secrets :
       \E req \in Requests(appSecret) :
         LET done == postWebhook(req, appSecret)
         IN  /\ op' = "postWebhook"
             /\ sigArgs' = [payload |-> req.rawBody, signature |-> req.signature,
                            appSecret |-> appSecret]
             /\ envelope' = req.body
             /\ calls' = done.calls
             /\ response' = done.response
             /\ UNCHANGED <<hookArgs, outcome, clientVars>>

PostWebhookAI ==
  /\ op = "none"
  /\ \E appSecret \in Secrets :
       \E req \in Requests(appSecret) :
         \E env \in IF ReachesOutbound(req, appSecret) THEN Envs ELSE {QuietEnv} :
           LET done == postWebhookAI(req, appSecret, env)
           IN  /\ op' = "postWebhookAI"
               /\ sigArgs' = [payload |-> req.rawBody, signature |-> req.signature,
                              appSecret |-> appSecret]
               /\ envelope' = req.body
               /\ calls' = done.calls
               /\ response' = done.response
               /\ UNCHANGED <<hookArgs, outcome, clientVars>>

NextServer ==
  \/ Done
  \/ GetWebhook
  \/ PostWebhook
  \/ PostWebhookAI

SpecServer == Init /\ [][NextServer]_vars

---------------------------------------------------------------------------
(* The API client WhatsAppBusiness (src/src/index.ts).  An instance holds  *)
(* its configuration; a method call issues HTTP requests one at a time,    *)
(* waits for the answer to each, and ends by returning or throwing.        *)
(* requests is the log of the requests of the call in progress, each with  *)
(* the answer it got; pc is the request the call is waiting on.            *)

(* The defaults the constructor puts under the caller's configuration. *)
Defaults ==
  [apiVersion |-> Str("v24.0"), baseUrl |-> Str("https://graph.facebook.com")]

(* constructor: { apiVersion: 'v24.0', baseUrl: '...', ...config }. *)
WhatsAppBusiness(given) ==
  [k \in DOMAIN Defaults \cup DOMAIN given |->
     IF k \in DOMAIN given THEN given[k] ELSE Defaults[k]]

AccessTokens == {"EAAG-1", "EAAG-2"}

SenderIds == {<<"1", "0", "6">>, <<"1", "0", "6", "_", "b">>}

(* The configurations a caller can give: the two required fields, and      *)
(* apiVersion and baseUrl given or left out.                               *)
CallerConfigs ==
  { [k \in {"accessToken", "senderPhoneNumberId"} \cup optional |->
       CASE k = "accessToken" -> Str(t)
         [] k = "senderPhoneNumberId" -> Str(id)
         [] k = "apiVersion" -> Str("v19.0")
         [] OTHER -> Str("https://graph.example")] :
      t \in AccessTokens, id \in SenderIds,
      optional \in SUBSET {"apiVersion", "baseUrl"} }

(* The Authorization header of a request. *)
Bearer(token) == [scheme |-> "Bearer", credentials |-> token]

OAuth(token) == [scheme |-> "OAuth", credentials |-> token]

NoAuthorization == [scheme |-> "none", credentials |-> ""]

(* `${v}` in a template literal. *)
ToText(v) ==
  IF v.t = "string" THEN v.v
  ELSE <<"u", "n", "d", "e", "f", "i", "n", "e", "d">>

(* A request URL `${base}/${version}/${node}/${edge}`. *)
Url(base, version, node, edge) ==
  [base |-> base, version |-> version, node |-> node, edge |-> edge]

(* A request; tokenParam is the access token sent as a query parameter,    *)
(* "" when none is.                                                        *)
Request(verb, url, authorization, tokenParam) ==
  [verb |-> verb, url |-> url, authorization |-> authorization,
   tokenParam |-> tokenParam]

(* The id a caller passes to a method (a WABA, template, flow, ... id). *)
CALLER_ID == <<"i", "d">>

(* The URL a caller passes to downloadMedia. *)
MEDIA_URL == Url("https://lookaside.example", "", <<"m">>, "")

(* this.axiosInstance: baseURL and the default Authorization header. *)
axiosInstance(cfg, verb, edge) ==
  Request(verb,
          Url(cfg.baseUrl.v, cfg.apiVersion.v, ToText(cfg.senderPhoneNumberId), edge),
          Bearer(cfg.accessToken.v), "")

(* axios called with headers without Authorization. *)
axiosBearer_noHeader(cfg, verb, node, edge) ==
  Request(verb, Url(cfg.baseUrl.v, cfg.apiVersion.v, node, edge),
          NoAuthorization, "")

(* axios called with the URL built from the configuration and the header   *)
(* 'Authorization': `Bearer ${this.config.accessToken}`.                   *)
axiosBearer(cfg, verb, node, edge) ==
  Request(verb, Url(cfg.baseUrl.v, cfg.apiVersion.v, node, edge),
          Bearer(cfg.accessToken.v), "")

(* What a method with one request asks for and gives back. *)
Endpoint(verb, client, node, edge, returns) ==
  [verb |-> verb, client |-> client, node |-> node, edge |-> edge,
   returns |-> returns]

SingleRequestMethods ==
  {"sendText", "sendTemplate", "sendImage", "sendVideo", "sendAudio",
   "sendDocument", "sendSticker", "sendLocation", "sendContacts",
   "sendInteractive", "sendReaction", "markMessageAsRead", "uploadMedia",
   "getMediaUrl", "getPhoneNumbers", "registerPhoneNumber",
   "getBusinessProfile", "updateBusinessProfile", "createTemplate",
   "getTemplates", "getTemplateById", "updateTemplate", "deleteTemplate",
   "getAnalytics", "createQRCode", "getQRCodes", "deleteQRCode",
   "createFlow", "getFlows", "updateFlowJson", "publishFlow",
   "getProducts", "addProduct", "updateProduct", "setIceBreakers",
   "getIceBreakers", "setCommands", "getCommands", "sendRequestAddress",
   "sendCatalog", "sendProductList", "sendOrderDetails", "getCreditLines",
   "allocateCredit", "requestOfficialBusinessAccount"}

EndpointOf(method) ==
  CASE
       method = "sendText" ->
         Endpoint("post", "instance", "sender", "messages", "data")
    [] method = "sendTemplate" ->
         Endpoint("post", "instance", "sender", "messages", "data")
    [] method = "sendImage" ->
         Endpoint("post", "instance", "sender", "messages", "data")
    [] method = "sendVideo" ->
         Endpoint("post", "instance", "sender", "messages", "data")
    [] method = "sendAudio" ->
         Endpoint("post", "instance", "sender", "messages", "data")
    [] method = "sendDocument" ->
         Endpoint("post", "instance", "sender", "messages", "data")
    [] method = "sendSticker" ->
         Endpoint("post", "instance", "sender", "messages", "data")
    [] method = "sendLocation" ->
         Endpoint("post", "instance", "sender", "messages", "data")
    [] method = "sendContacts" ->
         Endpoint("post", "instance", "sender", "messages", "data")
    [] method = "sendInteractive" ->
         Endpoint("post", "instance", "sender", "messages", "data")
    [] method = "sendReaction" ->
         Endpoint("post", "instance", "sender", "messages", "data")
    [] method = "markMessageAsRead" ->
         Endpoint("post", "instance", "sender", "messages", "success")
    [] method = "uploadMedia" ->
         Endpoint("post", "axios", "sender", "media", "data")
    [] method = "getMediaUrl" ->
         Endpoint("get", "instance", "sender", "{id}", "url")
    [] method = "getPhoneNumbers" ->
         Endpoint("get", "axios", "id", "phone_numbers", "data")
    [] method = "registerPhoneNumber" ->
         Endpoint("post", "axios", "id", "register", "data")
    [] method = "getBusinessProfile" ->
         Endpoint("get", "instance", "sender", "whatsapp_business_profile", "data")
    [] method = "updateBusinessProfile" ->
         Endpoint("post", "instance", "sender", "whatsapp_business_profile", "success")
    [] method = "createTemplate" ->
         Endpoint("post", "axios", "id", "message_templates", "data")
    [] method = "getTemplates" ->
         Endpoint("get", "axios", "id", "message_templates", "data")
    [] method = "getTemplateById" ->
         Endpoint("get", "axios", "id", "", "data")
    [] method = "updateTemplate" ->
         Endpoint("post", "axios", "id", "", "success")
    [] method = "deleteTemplate" ->
         Endpoint("delete", "axios", "id", "message_templates", "success")
    [] method = "getAnalytics" ->
         Endpoint("get", "axios", "id", "analytics", "data")
    [] method = "createQRCode" ->
         Endpoint("post", "axios", "id", "message_qrdls", "data")
    [] method = "getQRCodes" ->
         Endpoint("get", "axios", "id", "message_qrdls", "data")
    [] method = "deleteQRCode" ->
         Endpoint("delete", "axios", "id", "message_qrdls", "success")
    [] method = "createFlow" ->
         Endpoint("post", "axios", "id", "flows", "data")
    [] method = "getFlows" ->
         Endpoint("get", "axios", "id", "flows", "data")
    [] method = "updateFlowJson" ->
         Endpoint("post", "axios", "id", "assets", "success")
    [] method = "publishFlow" ->
         Endpoint("post", "axios", "id", "publish", "success")
    [] method = "getProducts" ->
         Endpoint("get", "axios", "id", "products", "data")
    [] method = "addProduct" ->
         Endpoint("post", "axios", "id", "products", "data")
    [] method = "updateProduct" ->
         Endpoint("post", "axios", "id", "batch", "success")
    [] method = "setIceBreakers" ->
         Endpoint("post", "axios", "id", "conversational_automation", "success")
    [] method = "getIceBreakers" ->
         Endpoint("get", "axios", "id", "conversational_automation", "data")
    [] method = "setCommands" ->
         Endpoint("post", "axios", "id", "conversational_automation", "success")
    [] method = "getCommands" ->
         Endpoint("get", "axios", "id", "conversational_automation", "data")
    [] method = "sendRequestAddress" ->
         Endpoint("post", "instance", "sender", "messages", "data")
    [] method = "sendCatalog" ->
         Endpoint("post", "instance", "sender", "messages", "data")
    [] method = "sendProductList" ->
         Endpoint("post", "instance", "sender", "messages", "data")
    [] method = "sendOrderDetails" ->
         Endpoint("post", "instance", "sender", "messages", "data")
    [] method = "getCreditLines" ->
         Endpoint("get", "axios", "id", "extended_credits", "data")
    [] method = "allocateCredit" ->
         Endpoint("post", "axios", "id", "owes_amount", "success")
    [] method = "requestOfficialBusinessAccount" ->
         Endpoint("post", "axios", "id", "official_business_account", "data")

SpecialMethods ==
  {"downloadMedia", "exchangeToken", "debugToken", "uploadMediaForTemplate",
   "deleteProduct"}

Methods == SingleRequestMethods \cup SpecialMethods

(* The answers to a request: a 2xx response, a non-2xx response with the   *)
(* provider's error body, or no response at all.                           *)
FullData ==
  [id |-> Str(<<"9", "1">>), h |-> Str(<<"4", ":", "h">>),
   url |-> Str(<<"u", "r", "l">>)]

PlainData == [status |-> Str(<<"o", "k">>)]

ErrorBody == [error |-> [message |-> "Invalid parameter", code |-> "100"]]

Answer(status, data) == [status |-> status, data |-> data]

Pending == Answer("pending", NoArgs)

NoResponse == Answer("none", NoArgs)

Responses ==
  {Answer("2xx", FullData), Answer("2xx", PlainData),
   Answer("non2xx", ErrorBody), NoResponse}

(* response.data.<name>. *)
Field(data, name) == IF name \in DOMAIN data THEN data[name] ELSE Undefined

(* The error axios rejects with: it carries the response when there is one.*)
AxiosError(answer) == [name |-> "AxiosError", response |-> answer]

(* fs.statSync on a missing file. *)
ENOENT == [name |-> "Error", code |-> "ENOENT"]

Raise(e) == [kind |-> "throw", value |-> e]

(* handleError, and the catch blocks that repeat its body:                 *)
(* throw error.response ? error.response.data : error.                     *)
handleError(error) ==
  IF error.response # NoResponse THEN Raise(error.response.data)
  ELSE Raise(error)

(* A step of a method: it issues its next request and waits at a stage, or *)
(* it ends with an outcome.                                                *)
Issue(request, stage) ==
  [kind |-> "issue", request |-> request, stage |-> stage, outcome |-> NoArgs]

Settle(result) ==
  [kind |-> "settle", request |-> NoArgs, stage |-> "idle", outcome |-> result]

(* The request of a method that issues one. *)
RequestOf(cfg, method) ==
  LET e == EndpointOf(method)
  IN  IF e.client = "instance" THEN axiosInstance(cfg, e.verb, e.edge)
      ELSE axiosBearer(cfg, e.verb,
                       IF e.node = "sender" THEN ToText(cfg.senderPhoneNumberId)
                       ELSE CALLER_ID,
                       e.edge)

(* try { const response = await ...; return ...; } catch { throw ... } of  *)
(* a method with one request, given the answer to a second attempt: it     *)
(* repeats the request once after a failure.                               *)
single_retry(cfg, method, stage, answer) ==
  IF answer.status = "2xx"
  THEN LET returns == EndpointOf(method).returns
       IN  Settle(Return(CASE returns = "success" -> [success |-> TRUE]
                           [] returns = "url" -> Field(answer.data, "url")
                           [] OTHER -> answer.data))
  ELSE IF stage = "only" THEN Issue(RequestOf(cfg, method), "retry")
  ELSE Settle(handleError(AxiosError(answer)))

(* try { const response = await ...; return ...; } catch { throw ... } of  *)
(* a method with one request.                                              *)
single(cfg, method, stage, answer) ==
  IF answer.status = "2xx"
  THEN LET returns == EndpointOf(method).returns
       IN  Settle(Return(CASE returns = "success" -> [success |-> TRUE]
                           [] returns = "url" -> Field(answer.data, "url")
                           [] OTHER -> answer.data))
  ELSE Settle(handleError(AxiosError(answer)))

(* downloadMedia(url). *)
downloadMedia(cfg, answer) ==
  IF answer.status = "2xx" THEN Settle(Return(answer.data))
  ELSE Settle(handleError(AxiosError(answer)))

(* exchangeToken: a literal URL, the credentials as query parameters. *)
exchangeTokenRequest(shortLivedToken) ==
  Request("get", Url("https://graph.facebook.com", "v24.0", <<>>,
                     "oauth/access_token"),
          NoAuthorization, shortLivedToken)

(* debugToken: a literal URL, the tokens as query parameters. *)
debugTokenRequest(accessToken) ==
  Request("get", Url("https://graph.facebook.com", "v21.0", <<>>, "debug_token"),
          NoAuthorization, accessToken)

(* uploadMedia's request, also the fallback of uploadMediaForTemplate. *)
uploadMediaRequest(cfg) ==
  axiosBearer(cfg, "post", ToText(cfg.senderPhoneNumberId), "media")

(* uploadMediaForTemplate, step 1: create the upload session. *)
sessionRequest(cfg) ==
  Request("post",
          Url(cfg.baseUrl.v, cfg.apiVersion.v,
              Split(ToText(cfg.senderPhoneNumberId), "_")[1], "uploads"),
          NoAuthorization, cfg.accessToken.v)

(* uploadMediaForTemplate, step 2: upload the content to the session. *)
contentRequest(cfg, uploadId) ==
  Request("post", Url(cfg.baseUrl.v, cfg.apiVersion.v, ToText(uploadId), ""),
          OAuth(cfg.accessToken.v), "")

(* throws when the content upload fails, instead of falling back *)
uploadMediaForTemplate_noFallback(cfg, stage, answer) ==
  CASE stage = "session" ->
         IF answer.status = "2xx"
         THEN Issue(contentRequest(cfg, Field(answer.data, "id")), "content")
         ELSE Issue(uploadMediaRequest(cfg), "fallback")
    [] stage = "content" ->
         IF answer.status = "2xx"
         THEN Settle(Return(Field(answer.data, "h")))
         ELSE Settle(handleError(AxiosError(answer)))
    [] OTHER ->
         IF answer.status = "2xx"
         THEN Settle(Return(Field(answer.data, "id")))
         ELSE Settle(handleError(AxiosError(answer)))

(* uploadMediaForTemplate after the answer to the request of the stage. *)
uploadMediaForTemplate(cfg, stage, answer) ==
  CASE stage = "session" ->
         IF answer.status = "2xx"
         THEN Issue(contentRequest(cfg, Field(answer.data, "id")), "content")
         ELSE Issue(uploadMediaRequest(cfg), "fallback")
    [] stage = "content" ->
         IF answer.status = "2xx"
         THEN Settle(Return(Field(answer.data, "h")))
         ELSE Issue(uploadMediaRequest(cfg), "fallback")
    [] OTHER ->
         IF answer.status = "2xx"
         THEN Settle(Return(Field(answer.data, "id")))
         ELSE Settle(handleError(AxiosError(answer)))

(* deletes the product node whatever the catalog endpoint answered *)
deleteProduct_continue(cfg, stage, answer) ==
  CASE stage = "catalog" ->
         Issue(axiosBearer(cfg, "delete", CALLER_ID, ""), "product")
    [] OTHER ->
         IF answer.status = "2xx" THEN Settle(Return([success |-> TRUE]))
         ELSE Settle(handleError(AxiosError(answer)))

(* deleteProduct after the answer to the request of the stage. *)
deleteProduct(cfg, stage, answer) ==
  CASE stage = "catalog" ->
         IF answer.status = "2xx"
         THEN Issue(axiosBearer(cfg, "delete", CALLER_ID, ""), "product")
         ELSE Settle(handleError(AxiosError(answer)))
    [] OTHER ->
         IF answer.status = "2xx" THEN Settle(Return([success |-> TRUE]))
         ELSE Settle(handleError(AxiosError(answer)))

(* The method goes on after the answer to the request it waits on. *)
Resume(cfg, method, stage, answer) ==
  CASE method = "uploadMediaForTemplate" ->
         uploadMediaForTemplate(cfg, stage, answer)
    [] method = "deleteProduct" -> deleteProduct(cfg, stage, answer)
    [] method = "downloadMedia" -> downloadMedia(cfg, answer)
    [] method \in {"exchangeToken", "debugToken"} ->
         downloadMedia(cfg, answer)
    [] OTHER -> single(cfg, method, stage, answer)

(* The log entry of a request that waits for its answer. *)
Awaiting(request) ==
  [verb |-> request.verb, url |-> request.url,
   authorization |-> request.authorization, tokenParam |-> request.tokenParam,
   response |-> Pending]

(* The log with the answer to its last request filled in. *)
Answered(log, answer) == [log EXCEPT ![Len(log)].response = answer]

InitClient ==
  /\ op = "none"
  /\ sigArgs = NoArgs
  /\ hookArgs = NoArgs
  /\ envelope = NoArgs
  /\ outcome = NoArgs
  /\ calls = <<>>
  /\ response = NoArgs
  /\ config \in { WhatsAppBusiness(given) : given \in CallerConfigs }
  /\ requests = <<>>
  /\ pc = "idle"

(* A method with one request is called. *)
InvokeSingle ==
  /\ op = "none"
  /\ \E method \in SingleRequestMethods :
       /\ op' = method
       /\ requests' = <<Awaiting(RequestOf(config, method))>>
       /\ pc' = "only"
  /\ UNCHANGED <<sigArgs, hookArgs, envelope, outcome, serverVars, config>>

InvokeDownloadMedia ==
  /\ op = "none"
  /\ op' = "downloadMedia"
  /\ requests' = <<Awaiting(Request("get", MEDIA_URL,
                                    Bearer(config.accessToken.v), ""))>>
  /\ pc' = "only"
  /\ UNCHANGED <<sigArgs, hookArgs, envelope, outcome, serverVars, config>>

InvokeExchangeToken ==
  /\ op = "none"
  /\ \E shortLivedToken \in AccessTokens :
       /\ op' = "exchangeToken"
       /\ requests' = <<Awaiting(exchangeTokenRequest(shortLivedToken))>>
       /\ pc' = "only"
  /\ UNCHANGED <<sigArgs, hookArgs, envelope, outcome, serverVars, config>>

InvokeDebugToken ==
  /\ op = "none"
  /\ \E accessToken \in AccessTokens :
       /\ op' = "debugToken"
       /\ requests' = <<Awaiting(debugTokenRequest(accessToken))>>
       /\ pc' = "only"
  /\ UNCHANGED <<sigArgs, hookArgs, envelope, outcome, serverVars, config>>

InvokeDeleteProduct ==
  /\ op = "none"
  /\ op' = "deleteProduct"
  /\ requests' = <<Awaiting(axiosBearer(config, "delete", CALLER_ID, "products"))>>
  /\ pc' = "catalog"
  /\ UNCHANGED <<sigArgs, hookArgs, envelope, outcome, serverVars, config>>

(* fs.statSync(filePath) throws before any request when the file is        *)
(* missing.                                                                *)
InvokeUploadMediaForTemplate ==
  /\ op = "none"
  /\ op' = "uploadMediaForTemplate"
  /\ \E fileExists \in BOOLEAN :
       IF fileExists
       THEN /\ requests' = <<Awaiting(sessionRequest(config))>>
            /\ pc' = "session"
            /\ outcome' = outcome
       ELSE /\ requests' = <<>>
            /\ pc' = "idle"
            /\ outcome' = Raise(ENOENT)
  /\ UNCHANGED <<sigArgs, hookArgs, envelope, serverVars, config>>

(* The answer to the request the method waits on arrives, and the method   *)
(* runs to its next request or to its end.                                 *)
Respond ==
  /\ pc # "idle"
  /\ \E answer \in Responses :
       LET step == Resume(config, op, pc, answer)
           log == Answered(requests, answer)
       IN  /\ requests' = IF step.kind = "issue"
                          THEN log \o <<Awaiting(step.request)>> ELSE log
           /\ pc' = step.stage
           /\ outcome' = step.outcome
  /\ UNCHANGED <<op, sigArgs, hookArgs, envelope, serverVars, config>>

NextClient ==
  \/ Done
  \/ InvokeSingle
  \/ InvokeDownloadMedia
  \/ InvokeExchangeToken
  \/ InvokeDebugToken
  \/ InvokeDeleteProduct
  \/ InvokeUploadMediaForTemplate
  \/ Respond

SpecClient == InitClient /\ [][NextClient]_vars

---------------------------------------------------------------------------
(* Vocabulary of the properties.                                           *)

True == Return(Bool(TRUE))

False == Return(Bool(FALSE))

(* The header the provider issues for payload p under secret s. *)
IssuedHeader(s, p) == Str(SignatureHeader(HmacSha256Hex(s, p)))

IsHexChar(c) ==
  \E i \in 1..Len(HexDigits) : c = HexDigits[i] \/ c = ToUpperCase(HexDigits[i])

(* p and q have the same length and differ in exactly one byte. *)
SingleByteMutation(p, q) ==
  /\ Len(p) = Len(q)
  /\ Cardinality({ i \in 1..Len(p) : p[i] # q[i] }) = 1

QueryMode == GetProp(hookArgs.query, "hub.mode")

QueryToken == GetProp(hookArgs.query, "hub.verify_token")

QueryChallenge == GetProp(hookArgs.query, "hub.challenge")

(* v is a sequence (an array) that has a first element. *)
NonEmptyArray(v) == v.t = "array" /\ Len(v.v) > 0

HasField(v, name) == v.t = "object" /\ name \in DOMAIN v.v

(* Every link of entry[0].changes[0].value.<field>[0] is there: entry,     *)
(* changes and <field> are non-empty arrays, the first entry, the first    *)
(* change and its value are objects.                                       *)
ChainComplete(payload, field) ==
  /\ HasField(payload, "entry")
  /\ NonEmptyArray(payload.v["entry"])
  /\ LET entry0 == payload.v["entry"].v[1]
     IN  /\ HasField(entry0, "changes")
         /\ NonEmptyArray(entry0.v["changes"])
         /\ LET change0 == entry0.v["changes"].v[1]
            IN  /\ HasField(change0, "value")
                /\ HasField(change0.v["value"], field)
                /\ NonEmptyArray(change0.v["value"].v[field])

---------------------------------------------------------------------------
(* C1: the header "sha256=" + lowercase hex HMAC-SHA256(S, P) validates    *)
(* payload P under secret S: validateSignature returns true.               *)
C1_IssuedSignatureAccepted ==
  (/\ op = "validateSignature"
   /\ sigArgs.signature = IssuedHeader(sigArgs.appSecret, sigArgs.payload))
  => outcome = True

C1_Witness ==
  /\ op = "validateSignature"
  /\ Len(sigArgs.payload) > 0
  /\ Len(sigArgs.appSecret) > 0
  /\ sigArgs.signature = IssuedHeader(sigArgs.appSecret, sigArgs.payload)
  /\ outcome = True

(* C2: a header issued for another payload P under the same secret never   *)
(* validates the payload given: validateSignature returns false.           *)
C2_OtherPayloadRejected ==
  (/\ op = "validateSignature"
   /\ \E p \in Payloads :
        /\ p # sigArgs.payload
        /\ sigArgs.signature = IssuedHeader(sigArgs.appSecret, p))
  => outcome = False

C2_Witness ==
  /\ op = "validateSignature"
  /\ \E p \in Payloads :
       /\ SingleByteMutation(p, sigArgs.payload)
       /\ sigArgs.signature = IssuedHeader(sigArgs.appSecret, p)
  /\ outcome = False

(* C3: a header produced for the payload under another secret than the     *)
(* configured one is rejected: validateSignature returns false.            *)
C3_OtherSecretRejected ==
  (/\ op = "validateSignature"
   /\ \E s \in Secrets :
        /\ s # sigArgs.appSecret
        /\ sigArgs.signature = IssuedHeader(s, sigArgs.payload))
  => outcome = False

C3_Witness ==
  /\ op = "validateSignature"
  /\ \E s \in Secrets :
       /\ s # sigArgs.appSecret
       /\ Len(s) > 0
       /\ sigArgs.signature = IssuedHeader(s, sigArgs.payload)
  /\ Len(sigArgs.appSecret) > 0
  /\ outcome = False

(* C4: validateSignature fails closed.  It returns false, and does not     *)
(* throw, when the header is absent or empty, when the header split on "=" *)
(* has not exactly two parts, when the supplied digest differs in length   *)
(* (in characters or in bytes) from the computed one, and when the         *)
(* supplied digest holds a character that is no hexadecimal digit.         *)
HeaderAbsentOrEmpty ==
  sigArgs.signature = Undefined \/ sigArgs.signature = Str(<<>>)

HeaderParts == Split(sigArgs.signature.v, "=")

HeaderNotTwoParts == ~HeaderAbsentOrEmpty /\ Len(HeaderParts) # 2

SuppliedDigestWrongLength ==
  /\ ~HeaderAbsentOrEmpty
  /\ Len(HeaderParts) = 2
  /\ \/ Len(HeaderParts[2]) # HexDigestLen
     \/ Len(BufferFrom(HeaderParts[2])) # HexDigestLen

SuppliedDigestNotHex ==
  /\ ~HeaderAbsentOrEmpty
  /\ Len(HeaderParts) = 2
  /\ \E i \in 1..Len(HeaderParts[2]) : ~IsHexChar(HeaderParts[2][i])

C4_FailsClosed ==
  (/\ op = "validateSignature"
   /\ \/ HeaderAbsentOrEmpty
      \/ HeaderNotTwoParts
      \/ SuppliedDigestWrongLength
      \/ SuppliedDigestNotHex)
  => outcome = False

(* A digest of the right number of characters, one of them not             *)
(* hexadecimal and two bytes wide, has been rejected.                      *)
C4_Witness ==
  /\ op = "validateSignature"
  /\ SuppliedDigestNotHex
  /\ Len(HeaderParts[2]) = HexDigestLen
  /\ Len(BufferFrom(HeaderParts[2])) # HexDigestLen
  /\ outcome = False

---------------------------------------------------------------------------
(* C6 as stated: whenever hub.mode is "subscribe" and hub.verify_token     *)
(* equals the expected token, verifyWebhook returns hub.challenge          *)
(* unchanged.                                                              *)
C6_MatchReturnsChallenge ==
  (/\ op = "verifyWebhook"
   /\ QueryMode = Str(SUBSCRIBE)
   /\ QueryToken = Str(hookArgs.verifyToken))
  => outcome = Return(QueryChallenge)

(* C6 as amended: whenever hub.mode is "subscribe" and hub.verify_token is *)
(* a non-empty string equal to the expected token, verifyWebhook returns   *)
(* the value of hub.challenge unchanged.                                   *)
C6_NonEmptyMatchReturnsChallenge ==
  (/\ op = "verifyWebhook"
   /\ QueryMode = Str(SUBSCRIBE)
   /\ QueryToken = Str(hookArgs.verifyToken)
   /\ hookArgs.verifyToken # <<>>)
  => outcome = Return(QueryChallenge)

C6_Witness ==
  /\ op = "verifyWebhook"
  /\ QueryMode = Str(SUBSCRIBE)
  /\ QueryToken = Str(hookArgs.verifyToken)
  /\ hookArgs.verifyToken # <<>>
  /\ QueryChallenge = Str(CHALLENGE)
  /\ outcome = Return(Str(CHALLENGE))

(* C7: in every case other than (hub.mode is "subscribe" and               *)
(* hub.verify_token equals the expected token) verifyWebhook returns null. *)
C7_MismatchReturnsNull ==
  (/\ op = "verifyWebhook"
   /\ ~(QueryMode = Str(SUBSCRIBE) /\ QueryToken = Str(hookArgs.verifyToken)))
  => outcome = Return(Null)

(* The mode is "subscribe", a challenge is given and the token is a wrong  *)
(* one: null has been returned.                                            *)
C7_Witness ==
  /\ op = "verifyWebhook"
  /\ QueryMode = Str(SUBSCRIBE)
  /\ QueryToken.t = "string"
  /\ QueryToken # Str(<<>>)
  /\ QueryToken # Str(hookArgs.verifyToken)
  /\ QueryChallenge = Str(CHALLENGE)
  /\ outcome = Return(Null)

(* C8: the result of verifyWebhook is a string or null, never another      *)
(* value such as undefined.                                                *)
C8_ResultStringOrNull ==
  op = "verifyWebhook"
  => (outcome.kind = "return" /\ outcome.value.t \in {"string", "null"})

(* C9: getFirstMessage returns null, and does not throw, for every         *)
(* envelope in which a link of entry[0].changes[0].value.messages[0] is    *)
(* missing, empty or of the wrong type.                                    *)
C9_GetFirstMessageNeverRaises ==
  (op = "getFirstMessage" /\ ~ChainComplete(envelope, "messages"))
  => outcome = Return(Null)

(* C10: getFirstStatus returns null, and does not throw, for every         *)
(* envelope in which a link of entry[0].changes[0].value.statuses[0] is    *)
(* missing, empty or of the wrong type.                                    *)
C10_GetFirstStatusNeverRaises ==
  (op = "getFirstStatus" /\ ~ChainComplete(envelope, "statuses"))
  => outcome = Return(Null)

---------------------------------------------------------------------------
(* Vocabulary of the extractor properties.                                 *)

Extractors == {"getFirstMessage", "getFirstStatus"}

(* The outcome of the extractor named on the envelope given. *)
Extract(name, payload) ==
  IF name = "getFirstMessage" THEN getFirstMessage(payload)
  ELSE getFirstStatus(payload)

SequenceNames == {"entry", "changes", "messages", "statuses"}

(* The first entry, the first change and its value, where the envelope is  *)
(* well formed so far: entry and changes are non-empty arrays of objects.  *)
HasEntry0(payload) ==
  /\ HasField(payload, "entry")
  /\ NonEmptyArray(payload.v["entry"])
  /\ payload.v["entry"].v[1].t = "object"

Entry0(payload) == payload.v["entry"].v[1]

HasChange0(payload) ==
  /\ HasEntry0(payload)
  /\ HasField(Entry0(payload), "changes")
  /\ NonEmptyArray(Entry0(payload).v["changes"])
  /\ Entry0(payload).v["changes"].v[1].t = "object"

Change0(payload) == Entry0(payload).v["changes"].v[1]

HasValue0(payload) ==
  /\ HasChange0(payload)
  /\ HasField(Change0(payload), "value")
  /\ Change0(payload).v["value"].t = "object"

Value0(payload) == Change0(payload).v["value"]

(* The object given without the field named. *)
Omit(o, name) == Obj([k \in DOMAIN o.v \ {name} |-> o.v[k]])

(* The object given with the field named set to val. *)
Put(o, name, val) ==
  Obj([k \in DOMAIN o.v \cup {name} |-> IF k = name THEN val ELSE o.v[k]])

(* The array given with its first element replaced. *)
PutFirst(a, val) == Arr([i \in 1..Len(a.v) |-> IF i = 1 THEN val ELSE a.v[i]])

(* The sequence named is present in the envelope and empty. *)
PresentEmpty(payload, name) ==
  CASE name = "entry" ->
         HasField(payload, "entry") /\ payload.v["entry"] = Arr(<<>>)
    [] name = "changes" ->
         /\ HasEntry0(payload)
         /\ HasField(Entry0(payload), "changes")
         /\ Entry0(payload).v["changes"] = Arr(<<>>)
    [] OTHER ->
         /\ HasValue0(payload)
         /\ HasField(Value0(payload), name)
         /\ Value0(payload).v[name] = Arr(<<>>)

(* The otherwise identical envelope in which the sequence named is absent. *)
Without(payload, name) ==
  CASE name = "entry" -> Omit(payload, "entry")
    [] name = "changes" ->
         Put(payload, "entry",
             PutFirst(payload.v["entry"], Omit(Entry0(payload), "changes")))
    [] OTHER ->
         Put(payload, "entry",
             PutFirst(payload.v["entry"],
               Put(Entry0(payload), "changes",
                 PutFirst(Entry0(payload).v["changes"],
                   Put(Change0(payload), "value",
                       Omit(Value0(payload), name))))))

(* The first value of the envelope holds a first element under name. *)
Holds(payload, name) ==
  HasValue0(payload) /\ HasField(Value0(payload), name)
  /\ NonEmptyArray(Value0(payload).v[name])

(* The first value of the envelope holds nothing under name: the field is  *)
(* absent, null or an empty array.                                         *)
HoldsNone(payload, name) ==
  /\ HasValue0(payload)
  /\ \/ ~HasField(Value0(payload), name)
     \/ Value0(payload).v[name] \in {Null, Arr(<<>>)}

(* C11: an extractor gives the same outcome, null and no exception, for an *)
(* envelope in which one of entry, changes, messages, statuses is present  *)
(* but empty as for the same envelope with that sequence absent.           *)
C11_EmptyAsAbsent ==
  op \in Extractors
  => \A name \in SequenceNames :
       PresentEmpty(envelope, name)
       => /\ outcome = Return(Null)
          /\ Extract(op, Without(envelope, name)) = outcome

(* C12: when entry[0].changes[0].value.messages is a non-empty sequence,   *)
(* getFirstMessage returns exactly its element at index 0, whatever the    *)
(* later elements are.                                                     *)
C12_ReturnsFirstMessage ==
  (op = "getFirstMessage" /\ Holds(envelope, "messages"))
  => outcome = Return(Value0(envelope).v["messages"].v[1])

C12_Witness ==
  /\ op = "getFirstMessage"
  /\ Holds(envelope, "messages")
  /\ Len(Value0(envelope).v["messages"].v) > 1
  /\ Value0(envelope).v["messages"].v[2] # Value0(envelope).v["messages"].v[1]
  /\ outcome = Return(Message(Ids[1]))

(* C13: the extractors are independent of each other's field: when the     *)
(* first change holds only messages getFirstStatus returns null; when it   *)
(* holds only statuses getFirstStatus returns statuses[0] and              *)
(* getFirstMessage returns null.                                           *)
C13_FieldsIndependent ==
  /\ (op = "getFirstStatus" /\ Holds(envelope, "messages")
        /\ ~HasField(Value0(envelope), "statuses"))
     => outcome = Return(Null)
  /\ (op = "getFirstStatus" /\ Holds(envelope, "statuses")
        /\ ~HasField(Value0(envelope), "messages"))
     => outcome = Return(Value0(envelope).v["statuses"].v[1])
  /\ (op = "getFirstMessage" /\ Holds(envelope, "statuses")
        /\ ~HasField(Value0(envelope), "messages"))
     => outcome = Return(Null)

C13_Witness ==
  /\ op = "getFirstStatus"
  /\ Holds(envelope, "messages")
  /\ ~HasField(Value0(envelope), "statuses")
  /\ outcome = Return(Null)

(* The envelope has an entry behind the first, or the first entry has a    *)
(* change behind the first, and that sibling holds an element under name.  *)
LaterSiblingHolds(payload, name) ==
  LET entries == payload.v["entry"].v
      changes == Entry0(payload).v["changes"].v
      ChangeHolds(c) ==
        /\ HasField(c, "value") /\ HasField(c.v["value"], name)
        /\ NonEmptyArray(c.v["value"].v[name])
  IN  \/ \E j \in 2..Len(changes) : ChangeHolds(changes[j])
      \/ \E i \in 2..Len(entries) :
           /\ HasField(entries[i], "changes")
           /\ entries[i].v["changes"].t = "array"
           /\ \E j \in 1..Len(entries[i].v["changes"].v) :
                ChangeHolds(entries[i].v["changes"].v[j])

(* C14: only the first entry and its first change are inspected: when      *)
(* entry[0].changes[0].value has no messages (statuses), getFirstMessage   *)
(* (getFirstStatus) returns null even though a later entry or a later      *)
(* change holds messages (statuses).                                       *)
C14_OnlyFirstEntryFirstChange ==
  /\ (op = "getFirstMessage" /\ HoldsNone(envelope, "messages")
        /\ LaterSiblingHolds(envelope, "messages"))
     => outcome = Return(Null)
  /\ (op = "getFirstStatus" /\ HoldsNone(envelope, "statuses")
        /\ LaterSiblingHolds(envelope, "statuses"))
     => outcome = Return(Null)

C14_Witness ==
  /\ op = "getFirstMessage"
  /\ HoldsNone(envelope, "messages")
  /\ Len(envelope.v["entry"].v) > 1
  /\ Len(Entry0(envelope).v["changes"].v) > 1
  /\ LaterSiblingHolds(envelope, "messages")
  /\ outcome = Return(Null)

---------------------------------------------------------------------------
(* Vocabulary of the route-handler properties.                             *)

PostHandlers == {"postWebhook", "postWebhookAI"}

(* The functions of a trace that read the body or reach out: the           *)
(* extraction and every call on the API client or the language model.      *)
FnsOf(trace) == { trace[i].fn : i \in 1..Len(trace) }

(* C15: in the POST handlers getFirstMessage and every outbound call come  *)
(* only after validateSignature returned true for the request; when it     *)
(* returns false the response is 401 and nothing else is called.           *)
C15_VerifyBeforeProcessing ==
  op \in PostHandlers
  => /\ Len(calls) > 0
     /\ calls[1].fn = "validateSignature"
     /\ \A i \in 2..Len(calls) :
          /\ calls[i].fn # "validateSignature"
          /\ calls[1].result = True
     /\ calls[1].result = False
        => (Len(calls) = 1 /\ response = SendStatus(401))

C15_Witness ==
  /\ op = "postWebhookAI"
  /\ calls[1].result = True
  /\ {"getFirstMessage", "markMessageAsRead", "sendText", "sendImage"}
       \subseteq FnsOf(calls)
  /\ response = SendStatus(200)

(* The handshake succeeds: hub.mode is 'subscribe' and hub.verify_token is *)
(* the configured token.                                                   *)
HandshakeSucceeds ==
  QueryMode = Str(SUBSCRIBE) /\ QueryToken = Str(hookArgs.verifyToken)

(* C16: in the GET handler a successful handshake is answered with a       *)
(* success response whose body is the raw hub.challenge string, every      *)
(* other request with a 4xx status and no challenge echoed, and null is    *)
(* never sent as a body.                                                   *)
C16_ChallengeEchoedOnSuccessOnly ==
  op = "getWebhook"
  => /\ HandshakeSucceeds
        => /\ response.kind = "sent"
           /\ response.status = 200
           /\ response.body.t = "string"
           /\ response.body = QueryChallenge
     /\ ~HandshakeSucceeds
        => /\ response.kind = "sent"
           /\ response.status \in 400..499
           /\ response.body = StatusText
     /\ response.body # Null

---------------------------------------------------------------------------
(* Vocabulary of the API-client properties.                                *)

(* A method call has ended: it returned or threw. *)
Settled == op \in Methods /\ pc = "idle"

AnsweredOk(i) == requests[i].response.status = "2xx"

ConfiguredToken == config.accessToken.v

(* C19: every public method issues exactly one HTTP request per           *)
(* invocation, on success and on failure alike, deleteProduct and          *)
(* uploadMediaForTemplate included.                                        *)
C19_ExactlyOneRequest ==
  Settled => Len(requests) = 1

(* C20 as stated: every HTTP request of every method carries the header    *)
(* Authorization: Bearer <accessToken> of the instance's configuration.    *)
C20_EveryRequestBearer ==
  \A i \in 1..Len(requests) :
    requests[i].authorization = Bearer(ConfiguredToken)

(* C20: every HTTP request carries Authorization: Bearer <accessToken> of  *)
(* the instance's configuration, except that the requests of exchangeToken *)
(* and debugToken carry no Authorization header, and that in               *)
(* uploadMediaForTemplate the session request carries none (the token is a *)
(* query parameter) and the content upload carries OAuth <accessToken>.    *)
C20_BearerButTokenAndUploadRequests ==
  \A i \in 1..Len(requests) :
    LET r == requests[i]
    IN  CASE op \in {"exchangeToken", "debugToken"} ->
               r.authorization = NoAuthorization
          [] op = "uploadMediaForTemplate" /\ r.url.edge = "uploads" ->
               r.authorization = NoAuthorization /\ r.tokenParam = ConfiguredToken
          [] op = "uploadMediaForTemplate" /\ r.url.edge = "" ->
               r.authorization = OAuth(ConfiguredToken)
          [] OTHER -> r.authorization = Bearer(ConfiguredToken)

C20_Witness ==
  /\ op = "uploadMediaForTemplate"
  /\ pc = "idle"
  /\ Len(requests) = 3
  /\ requests[1].authorization = NoAuthorization
  /\ requests[2].authorization = OAuth(ConfiguredToken)
  /\ requests[3].authorization = Bearer(ConfiguredToken)

(* C21: when a request of a method is answered non-2xx the method throws   *)
(* exactly the error body of that answer and issues no further request.    *)
C21_ErrorBodyThrownNoFurtherRequest ==
  \A i \in 1..Len(requests) :
    requests[i].response.status = "non2xx"
    => /\ i = Len(requests)
       /\ pc = "idle"
       /\ outcome = Raise(requests[i].response.data)

---------------------------------------------------------------------------
(* The digest computed for the call: lowercase hex HMAC-SHA256 of the      *)
(* payload under the secret.                                               *)
ComputedDigest == HmacSha256Hex(sigArgs.appSecret, sigArgs.payload)

(* The header of the call is a non-empty string with exactly two parts     *)
(* around '='.                                                             *)
HeaderHasTwoParts ==
  /\ sigArgs.signature.t = "string"
  /\ sigArgs.signature.v # <<>>
  /\ Len(HeaderParts) = 2

(* C22: validateSignature returns true if and only if the header is        *)
(* non-empty, has exactly two parts around '=' and its second part equals, *)
(* character for character, the lowercase hex HMAC-SHA256 of the payload   *)
(* under the secret; the first part does not matter, and the digest        *)
(* written in uppercase is rejected.                                       *)
C22_TrueIffDigestMatches ==
  op = "validateSignature"
  => /\ outcome = True <=> (HeaderHasTwoParts /\ HeaderParts[2] = ComputedDigest)
     /\ (/\ HeaderHasTwoParts
         /\ HeaderParts[2] = UpperCase(ComputedDigest)
         /\ UpperCase(ComputedDigest) # ComputedDigest)
        => outcome = False

(* The right digest under another algorithm name has been accepted. *)
C22_Witness ==
  /\ op = "validateSignature"
  /\ HeaderHasTwoParts
  /\ HeaderParts[1] = SHA1
  /\ HeaderParts[2] = ComputedDigest
  /\ outcome = True

(* The uppercase digest, different from the lowercase one, has been        *)
(* rejected.                                                               *)
UppercaseDigestRejected ==
  /\ op = "validateSignature"
  /\ HeaderHasTwoParts
  /\ HeaderParts[2] = UpperCase(ComputedDigest)
  /\ UpperCase(ComputedDigest) # ComputedDigest
  /\ outcome = False

(* C23: the constant-time comparison is reached only with buffers of equal *)
(* byte length: a supplied digest whose byte length differs from the       *)
(* computed digest's is rejected by the length check, and validateSignature*)
(* never ends with the comparison raising.                                 *)
C23_ComparisonNeverRaises ==
  op = "validateSignature"
  => /\ outcome.kind = "return"
     /\ (/\ HeaderHasTwoParts
         /\ Len(BufferFrom(HeaderParts[2])) # Len(BufferFrom(ComputedDigest)))
        => outcome = False

(* A supplied digest one character short has been rejected. *)
C23_Witness ==
  /\ op = "validateSignature"
  /\ HeaderHasTwoParts
  /\ Len(BufferFrom(HeaderParts[2])) = HexDigestLen - 1
  /\ outcome = False

---------------------------------------------------------------------------
---------------------------------------------------------------------------
(* C25: verifyWebhook never succeeds with an empty hub.mode or an empty    *)
(* hub.verify_token: whenever either of them is the empty string the       *)
(* result is null, also when the expected token is the empty string too;   *)
(* so with the empty string as expected token every call returns null.     *)
C25_EmptyNeverSucceeds ==
  (/\ op = "verifyWebhook"
   /\ \/ QueryMode = Str(<<>>)
      \/ QueryToken = Str(<<>>)
      \/ hookArgs.verifyToken = <<>>)
  => outcome = Return(Null)

(* The endpoint is configured with the empty token, the request carries    *)
(* mode "subscribe", the empty token and a challenge: null was returned.   *)
C25_Witness ==
  /\ op = "verifyWebhook"
  /\ hookArgs.verifyToken = <<>>
  /\ QueryMode = Str(SUBSCRIBE)
  /\ QueryToken = Str(<<>>)
  /\ QueryChallenge = Str(CHALLENGE)
  /\ outcome = Return(Null)

---------------------------------------------------------------------------
(* The two requests of deleteProduct. *)
CatalogDelete == Awaiting(axiosBearer(config, "delete", CALLER_ID, "products"))

ProductDelete == Awaiting(axiosBearer(config, "delete", CALLER_ID, ""))

SameRequest(entry, request) ==
  /\ entry.verb = request.verb
  /\ entry.url = request.url
  /\ entry.authorization = request.authorization

Succeeded == Return([success |-> TRUE])

(* C26: deleteProduct issues its two DELETE requests in order: first the   *)
(* one on the catalog's products endpoint, and the one on the product node *)
(* only after the first returned 2xx; {success: true} is returned exactly  *)
(* when both returned 2xx; when the first fails no second request is       *)
(* issued, and when the second fails the method throws although the first  *)
(* had returned 2xx.                                                       *)
C26_DeleteProductOrdered ==
  op = "deleteProduct"
  => /\ Len(requests) \in {1, 2}
     /\ SameRequest(requests[1], CatalogDelete)
     /\ Len(requests) = 2
        => /\ AnsweredOk(1)
           /\ SameRequest(requests[2], ProductDelete)
     /\ outcome = Succeeded
        <=> /\ pc = "idle"
            /\ Len(requests) = 2
            /\ AnsweredOk(1)
            /\ AnsweredOk(2)
     /\ (requests[1].response # Pending /\ ~AnsweredOk(1))
        => /\ Len(requests) = 1
           /\ pc = "idle"
           /\ outcome.kind = "throw"
     /\ (Len(requests) = 2 /\ requests[2].response # Pending /\ ~AnsweredOk(2))
        => /\ pc = "idle"
           /\ outcome.kind = "throw"

(* The catalog DELETE returned 2xx, the DELETE on the product node was     *)
(* answered with an error body, and that body was thrown.                  *)
C26_Witness ==
  /\ op = "deleteProduct"
  /\ pc = "idle"
  /\ Len(requests) = 2
  /\ AnsweredOk(1)
  /\ requests[2].response = Answer("non2xx", ErrorBody)
  /\ outcome = Raise(ErrorBody)

---------------------------------------------------------------------------
(* The requests of uploadMediaForTemplate, as they stand in the log. *)
IsSession(i) == SameRequest(requests[i], Awaiting(sessionRequest(config)))

IsContent(i, uploadId) ==
  SameRequest(requests[i], Awaiting(contentRequest(config, uploadId)))

IsFallback(i) == SameRequest(requests[i], Awaiting(uploadMediaRequest(config)))

Failed(i) == requests[i].response.status \in {"non2xx", "none"}

ReturnedData(i, name) == Return(Field(requests[i].response.data, name))

(* C27: uploadMediaForTemplate creates the session, uploads the content    *)
(* and returns the handle, in this order: the content upload is issued     *)
(* only after the session request returned 2xx and targets the id of its   *)
(* answer; when either request fails, uploadMedia's request is issued      *)
(* exactly once and its media id is returned; when that request fails too  *)
(* its error is thrown; no invocation issues more than three requests.     *)
C27_SessionContentHandleOrFallback ==
  op = "uploadMediaForTemplate"
  => LET n == Len(requests)
         fallbacks == { i \in 1..n : IsFallback(i) }
     IN  /\ n <= 3
         /\ n >= 1 => IsSession(1)
         /\ \A i \in 2..n :
              \/ /\ i = 2
                 /\ AnsweredOk(1)
                 /\ IsContent(2, Field(requests[1].response.data, "id"))
              \/ /\ i = n
                 /\ Failed(i - 1)
                 /\ IsFallback(i)
         /\ Cardinality(fallbacks) <= 1
         /\ \A i \in 1..n :
              (Failed(i) /\ ~IsFallback(i))
              => /\ n = i + 1
                 /\ IsFallback(n)
         /\ (pc = "idle" /\ n >= 1)
            => /\ requests[n].response # Pending
               /\ (n = 2 /\ AnsweredOk(1) /\ AnsweredOk(2))
                  => outcome = ReturnedData(2, "h")
               /\ (IsFallback(n) /\ AnsweredOk(n))
                  => outcome = ReturnedData(n, "id")
               /\ (IsFallback(n) /\ Failed(n))
                  => outcome = handleError(AxiosError(requests[n].response))

(* The session was created, the content upload was rejected, uploadMedia   *)
(* was called and the id of its answer was returned after three requests.  *)
C27_Witness ==
  /\ op = "uploadMediaForTemplate"
  /\ pc = "idle"
  /\ Len(requests) = 3
  /\ AnsweredOk(1)
  /\ IsContent(2, FullData.id)
  /\ Failed(2)
  /\ IsFallback(3)
  /\ AnsweredOk(3)
  /\ outcome = Return(FullData.id)

---------------------------------------------------------------------------
(* The configuration is one the constructor builds: the caller's values,   *)
(* with 'v24.0' and 'https://graph.facebook.com' for the ones left out.     *)
Constructed == config \in { WhatsAppBusiness(given) : given \in CallerConfigs }

UrlFromConfig(i) ==
  /\ requests[i].url.base = config.baseUrl.v
  /\ requests[i].url.version = config.apiVersion.v

(* C28: the configuration is the one fixed at construction, with apiVersion *)
(* 'v24.0' and baseUrl 'https://graph.facebook.com' where the caller gave   *)
(* none, and every request URL a method builds starts with the instance's  *)
(* baseUrl and apiVersion, the URLs of exchangeToken and debugToken         *)
(* included.  (downloadMedia builds no URL: it requests the one it is      *)
(* given.)                                                                 *)
C28_EveryUrlFromConfig ==
  /\ Constructed
  /\ op \in Methods \ {"downloadMedia"}
     => \A i \in 1..Len(requests) : UrlFromConfig(i)

(* The same, leaving out exchangeToken and debugToken. *)
C28_ButTokenMethods ==
  /\ Constructed
  /\ op \in Methods \ {"downloadMedia", "exchangeToken", "debugToken"}
     => \A i \in 1..Len(requests) : UrlFromConfig(i)

(* debugToken on an instance constructed without apiVersion: the request   *)
(* goes to v21.0 although the instance's apiVersion is v24.0.               *)
C28_DefaultVersionIgnored ==
  /\ op = "debugToken"
  /\ config.apiVersion = Defaults.apiVersion
  /\ Len(requests) = 1
  /\ requests[1].url.version # config.apiVersion.v

---------------------------------------------------------------------------
(* What the catch blocks throw for the answer to request i: the error      *)
(* itself when it carries no response, the response's data otherwise.      *)
ThrownFor(i) ==
  IF requests[i].response = NoResponse
  THEN Raise(AxiosError(NoResponse))
  ELSE Raise(requests[i].response.data)

(* C29: when a request of a method fails without a response the method     *)
(* throws the error object itself; when it fails with a response the       *)
(* method throws the response's data, never the wrapping error; in both    *)
(* cases the method returns no value.                                      *)
C29_FailureThrowsErrorOrData ==
  op \in Methods
  => \A i \in 1..Len(requests) :
       Failed(i)
       => /\ pc = "idle"
          /\ outcome = ThrownFor(i)
          /\ requests[i].response # NoResponse
             => outcome # Raise(AxiosError(requests[i].response))

(* The same for every method but uploadMediaForTemplate. *)
C29_ButUploadMediaForTemplate ==
  op \in Methods \ {"uploadMediaForTemplate"}
  => \A i \in 1..Len(requests) :
       Failed(i)
       => /\ pc = "idle"
          /\ outcome = ThrownFor(i)
          /\ requests[i].response # NoResponse
             => outcome # Raise(AxiosError(requests[i].response))

(* The session request of uploadMediaForTemplate failed without a          *)
(* response, and the method returned the media id of its fallback.         *)
C29_FailureThenReturn ==
  /\ op = "uploadMediaForTemplate"
  /\ pc = "idle"
  /\ Len(requests) = 2
  /\ requests[1].response = NoResponse
  /\ outcome = Return(FullData.id)

=============================================================================
